---- MODULE Spec2Model ----
(***************************************************************************)
(* Model of crates/rust-analyzer/src/bin/main.rs: the mode dispatcher      *)
(* (main) and the server-mode initialization handshake (run_server).       *)
(* One action per statement of main / run_server that is observable from   *)
(* outside (a Transport read or write, an environment lookup, a call into  *)
(* a collaborator).                                                        *)
(***************************************************************************)
EXTENDS Integers, Sequences, FiniteSets, TLC

(* ---------------------------------------------------------------------- *)
(* Bounds of the model                                                     *)
(* ---------------------------------------------------------------------- *)
MaxFolders == 2

(* ---------------------------------------------------------------------- *)
(* Option<T>: None is the empty sequence, Some(x) the one-element sequence *)
(* ---------------------------------------------------------------------- *)
None == <<>>
Some(x) == <<x>>
IsSome(o) == Len(o) = 1
IsNone(o) == Len(o) = 0
Unwrap(o) == o[1]

SeqsUpTo(S, n) == UNION { [1..k -> S] : k \in 0..n }

(* ---------------------------------------------------------------------- *)
(* Values of the inputs                                                    *)
(* ---------------------------------------------------------------------- *)
AbsPaths == {"/ws", "/a", "/cwd"}

(* lsp_types::Url values the client may send                               *)
Uris == { [scheme |-> "file", path |-> "/ws"],
          [scheme |-> "file", path |-> "/a"],
          [scheme |-> "file", path |-> "rel"],
          [scheme |-> "http", path |-> "/ws"] }

RequestIds == {1, 2}
ClientCaps == { {}, {"snippet"} }
ClientInfos == { None, Some("vscode") }

(* initializationOptions payloads: an optional linkedProjects list and an  *)
(* optional key the server does not recognise                              *)
InitOptions ==
    { None,
      Some([linkedProjects |-> None, unknownKey |-> TRUE]),
      Some([linkedProjects |-> Some(<<>>), unknownKey |-> FALSE]),
      Some([linkedProjects |-> Some(<<"p1">>), unknownKey |-> FALSE]),
      Some([linkedProjects |-> Some(<<"p2", "p1">>), unknownKey |-> TRUE]) }

(* A well-formed initialize body, as JSON                                  *)
WellFormedBodies ==
    [ wellFormed : {TRUE},
      root_uri : {None} \cup {Some(u) : u \in Uris},
      workspace_folders : {None} \cup {Some(fs) : fs \in SeqsUpTo(Uris, MaxFolders)},
      initialization_options : InitOptions,
      capabilities : ClientCaps,
      client_info : ClientInfos ]

(* A body that does not have the InitializeParams shape                    *)
MalformedBody == [wellFormed |-> FALSE]

Bodies == WellFormedBodies \cup {MalformedBody}

(* Filesystem snapshots: what ProjectManifest::discover finds under each   *)
(* absolute path, or "err" when the probe fails                            *)
Probe(ok, found) == [ok |-> ok, found |-> found]
FsSnapshots ==
    { [p \in AbsPaths |->
          CASE p = "/ws"  -> Probe(TRUE, <<"/ws/Cargo.toml", "/a/Cargo.toml">>)
            [] p = "/a"   -> Probe(TRUE, <<"/a/Cargo.toml">>)
            [] p = "/cwd" -> Probe(TRUE, <<"/cwd/Cargo.toml">>)],
      [p \in AbsPaths |->
          CASE p = "/ws"  -> Probe(FALSE, <<>>)
            [] p = "/a"   -> Probe(TRUE, <<"/a/Cargo.toml">>)
            [] p = "/cwd" -> Probe(TRUE, <<>>)],
      [p \in AbsPaths |-> Probe(TRUE, <<>>)] }

(* std::env::current_dir(): Ok(path) or an io::Error                       *)
CwdStates == { [ok |-> TRUE, path |-> "/cwd"],
               [ok |-> FALSE, path |-> ""] }

Commands == { "RunServer", "ProcMacro", "Parse", "Symbols", "Highlight", "Stats",
              "Bench", "Diagnostics", "Ssr", "StructuredSearch", "Version" }

NoConfig == [built |-> FALSE]

VARIABLES
    pc,                \* position of the control thread in main / run_server
    result,            \* what main returned: "none", "ok" or "err"
    command,           \* Option: args.command once Args::parse produced one
    invoked,           \* the handlers main has called, in order
    handlerResult,     \* what the called handler returned: "none", "ok", "err"
    ioThreads,         \* "none", "running" or "joined"; a `?` return drops
                       \* io_threads, whose thread handles detach on drop,
                       \* so the threads stay "running" (unjoined)
    sent,              \* messages written to the Transport, in order
    initialize_id,     \* Option: the id read with the initialize request
    raw_params,        \* Option: the undecoded body of the initialize request
    initialize_params, \* Option: the decoded InitializeParams
    config,            \* the Config being built (NoConfig before Config::new)
    workspace_roots,   \* Option: the candidate roots handed to discover_all
    loopConfig,        \* Option: the Config main_loop received
    cwd,               \* environment: state of the current working directory
    fs,                \* environment: the filesystem snapshot
    stdout,            \* the lines printed to standard output, in order
    trace              \* the steps run_server has taken, in order

vars == << pc, result, command, invoked, handlerResult, ioThreads, sent,
           initialize_id, raw_params, initialize_params, config,
           workspace_roots, loopConfig, cwd, fs, stdout, trace >>

env == << cwd, fs >>
handshake == << initialize_id, raw_params, initialize_params >>
resolver == << config, workspace_roots, loopConfig >>

Init ==
    /\ pc = "main"
    /\ result = "none"
    /\ command = None
    /\ invoked = <<>>
    /\ handlerResult = "none"
    /\ ioThreads = "none"
    /\ sent = <<>>
    /\ initialize_id = None
    /\ raw_params = None
    /\ initialize_params = None
    /\ config = NoConfig
    /\ workspace_roots = None
    /\ loopConfig = None
    /\ cwd \in CwdStates
    /\ fs \in FsSnapshots
    /\ stdout = <<>>
    /\ trace = <<>>

(* ---------------------------------------------------------------------- *)
(* Pure helpers of run_server                                              *)
(* ---------------------------------------------------------------------- *)

(* Url::to_file_path(): only a file: location converts to a path           *)
ToFilePath(uri) == IF uri.scheme = "file" THEN Some(uri.path) ELSE None

(* AbsPathBuf::try_from(PathBuf): only an absolute path converts           *)
AbsPathBufTryFrom(path) == IF path \in AbsPaths THEN Some(path) ELSE None

(* it.to_file_path().ok() then AbsPathBuf::try_from(it).ok()               *)
UriToAbsPath(uri) ==
    LET p == ToFilePath(uri)
    IN  IF IsSome(p) THEN AbsPathBufTryFrom(Unwrap(p)) ELSE None

(* from_json::<InitializeParams>: Ok(params) for a body of the expected    *)
(* shape, Err otherwise                                                    *)
FromJson(body) ==
    IF body.wellFormed
    THEN [ok |-> TRUE,
          params |-> [root_uri |-> body.root_uri,
                      workspace_folders |-> body.workspace_folders,
                      initialization_options |-> body.initialization_options,
                      capabilities |-> body.capabilities,
                      client_info |-> body.client_info]]
    ELSE [ok |-> FALSE, params |-> None]

(* env!("REV"): the build revision compiled into the binary                *)
Rev == "REV"

(* rust_analyzer::server_capabilities(&client_caps)                        *)
ServerCapabilities(client_caps) ==
    [completion |-> TRUE, snippetEdits |-> "snippet" \in client_caps]

(* Mutant of InitializeResult: the server identity echoes the client's    *)
(* name when the client sent one                                           *)
InitializeResultEchoesClient(params) ==
    [capabilities |-> ServerCapabilities(params.capabilities),
     server_info |-> [name |-> IF IsSome(params.client_info)
                               THEN Unwrap(params.client_info)
                               ELSE "rust-analyzer",
                      version |-> Some(Rev)]]

(* The InitializeResult value run_server serialises                        *)
InitializeResult(params) ==
    [capabilities |-> ServerCapabilities(params.capabilities),
     server_info |-> [name |-> "rust-analyzer", version |-> Some(Rev)]]

(* The response initialize_finish writes for (initialize_id, result)       *)
InitializeResponse(id, res) == [kind |-> "response", id |-> id, result |-> res]

(* Mutant of RootPath: a failing current_dir() is replaced by a default    *)
(* path instead of being returned                                          *)
RootPathDefaultOnError(params, cwdv) ==
    LET r == IF IsSome(params.root_uri) THEN UriToAbsPath(Unwrap(params.root_uri))
             ELSE None
    IN  IF IsSome(r) THEN [ok |-> TRUE, path |-> Unwrap(r), fromCwd |-> FALSE]
        ELSE IF cwdv.ok THEN [ok |-> TRUE, path |-> cwdv.path, fromCwd |-> TRUE]
        ELSE [ok |-> TRUE, path |-> "", fromCwd |-> TRUE]

(* Mutant of RootPath: the AbsPathBuf::try_from step is left out, so a     *)
(* file location with a relative path is taken as the root                 *)
RootPathNoAbsCheck(params, cwdv) ==
    LET r == IF IsSome(params.root_uri) THEN ToFilePath(Unwrap(params.root_uri))
             ELSE None
    IN  IF IsSome(r) THEN [ok |-> TRUE, path |-> Unwrap(r), fromCwd |-> FALSE]
        ELSE IF cwdv.ok THEN [ok |-> TRUE, path |-> cwdv.path, fromCwd |-> TRUE]
        ELSE [ok |-> FALSE, path |-> "", fromCwd |-> TRUE]

(* The root_path match: the supplied root when it converts to an absolute  *)
(* path, else current_dir()?                                              *)
RootPath(params, cwdv) ==
    LET r == IF IsSome(params.root_uri) THEN UriToAbsPath(Unwrap(params.root_uri))
             ELSE None
    IN  IF IsSome(r) THEN [ok |-> TRUE, path |-> Unwrap(r), fromCwd |-> FALSE]
        ELSE IF cwdv.ok THEN [ok |-> TRUE, path |-> cwdv.path, fromCwd |-> TRUE]
        ELSE [ok |-> FALSE, path |-> "", fromCwd |-> TRUE]

(* Config::new(root_path): the defaults                                    *)
ConfigNew(root_path) ==
    [built |-> TRUE, root_path |-> root_path, linked_projects |-> <<>>,
     caps |-> {}, merges |-> 0, capsApplied |-> 0]

(* A user-declared project, as Config::update stores it                    *)
DeclaredProject(p) == [kind |-> "declared", at |-> p]

(* Config::update(json): recognised keys override, unknown keys ignored    *)
ConfigUpdate(cfg, json) ==
    [cfg EXCEPT
       !.linked_projects =
           IF IsSome(json.linkedProjects)
           THEN [i \in 1..Len(Unwrap(json.linkedProjects)) |->
                    DeclaredProject(Unwrap(json.linkedProjects)[i])]
           ELSE @,
       !.merges = @ + 1]

(* Config::update_caps(&client_caps)                                       *)
ConfigUpdateCaps(cfg, client_caps) ==
    [cfg EXCEPT !.caps = client_caps, !.capsApplied = @ + 1]

(* Mutant of NeedsDiscovery: discovery runs whatever the list holds        *)
NeedsDiscoveryAlways(cfg) == TRUE

RECURSIVE ConvertAll(_)
(* into_iter().filter_map(to_file_path).filter_map(try_from).collect():    *)
(* the folders that convert, in the order of the input, the others dropped *)
ConvertAll(folders) ==
    IF folders = <<>> THEN <<>>
    ELSE LET r == UriToAbsPath(Head(folders))
         IN  (IF IsSome(r) THEN <<Unwrap(r)>> ELSE <<>>) \o ConvertAll(Tail(folders))

(* config.linked_projects.is_empty()                                       *)
NeedsDiscovery(cfg) == cfg.linked_projects = <<>>

(* Mutant of WorkspaceRoots: the .filter(|w| !w.is_empty()) step is left   *)
(* out, so an empty folder list gives no candidate at all                  *)
WorkspaceRootsNoFallback(params, root_path) ==
    LET converted ==
            IF IsSome(params.workspace_folders)
            THEN Some(ConvertAll(Unwrap(params.workspace_folders)))
            ELSE None
    IN  IF IsSome(converted) THEN Unwrap(converted) ELSE <<root_path>>

(* Mutant of WorkspaceRoots: the root path is a candidate ahead of the     *)
(* converted folders                                                       *)
WorkspaceRootsWithRoot(params, root_path) ==
    LET converted ==
            IF IsSome(params.workspace_folders)
            THEN ConvertAll(Unwrap(params.workspace_folders))
            ELSE <<>>
    IN  <<root_path>> \o converted

(* Mutant of WorkspaceRoots: the root path is always a candidate, after    *)
(* the converted folders                                                   *)
WorkspaceRootsAppendRoot(params, root_path) ==
    LET converted ==
            IF IsSome(params.workspace_folders)
            THEN ConvertAll(Unwrap(params.workspace_folders))
            ELSE <<>>
    IN  converted \o <<root_path>>

(* The workspace_roots expression: the folders that convert, in the        *)
(* client's order, or the root path alone when none is left                *)
WorkspaceRoots(params, root_path) ==
    LET converted ==
            IF IsSome(params.workspace_folders)
            THEN Some(ConvertAll(Unwrap(params.workspace_folders)))
            ELSE None
        kept == IF IsSome(converted) /\ Unwrap(converted) # <<>> THEN converted ELSE None
    IN  IF IsSome(kept) THEN Unwrap(kept) ELSE <<root_path>>

(* ProjectManifest::discover(path).ok()                                    *)
Discover(fsv, path) == IF fsv[path].ok THEN Some(fsv[path].found) ELSE None

RECURSIVE DiscoverAll(_, _)
(* ProjectManifest::discover_all(&roots): every root probed in order, a    *)
(* failing probe skipped, the finds concatenated                           *)
DiscoverAll(fsv, roots) ==
    IF roots = <<>> THEN <<>>
    ELSE LET r == Discover(fsv, Head(roots))
         IN  (IF IsSome(r) THEN Unwrap(r) ELSE <<>>) \o DiscoverAll(fsv, Tail(roots))

(* LinkedProject::from(ProjectManifest)                                    *)
LinkedProjectFrom(manifest) == [kind |-> "manifest", at |-> manifest]

(* discover_all(..).into_iter().map(LinkedProject::from).collect()         *)
DiscoveredProjects(fsv, roots) ==
    LET ms == DiscoverAll(fsv, roots)
    IN  [i \in 1..Len(ms) |-> LinkedProjectFrom(ms[i])]

(* ---------------------------------------------------------------------- *)
(* main                                                                    *)
(* ---------------------------------------------------------------------- *)

(* Mutant of HandlerOf: the Symbols arm calls the Parse handler            *)
HandlerOfSwapped(cmd) ==
    CASE cmd = "RunServer"        -> "run_server"
      [] cmd = "ProcMacro"        -> "ra_proc_macro_srv::cli::run"
      [] cmd = "Parse"            -> "cli::parse"
      [] cmd = "Symbols"          -> "cli::parse"
      [] cmd = "Highlight"        -> "cli::highlight"
      [] cmd = "Stats"            -> "cli::analysis_stats"
      [] cmd = "Bench"            -> "cli::analysis_bench"
      [] cmd = "Diagnostics"      -> "cli::diagnostics"
      [] cmd = "Ssr"              -> "cli::apply_ssr_rules"
      [] cmd = "StructuredSearch" -> "cli::search_for_patterns"
      [] cmd = "Version"          -> "println"

(* The match arms of main: the function each command is dispatched to      *)
HandlerOf(cmd) ==
    CASE cmd = "RunServer"        -> "run_server"
      [] cmd = "ProcMacro"        -> "ra_proc_macro_srv::cli::run"
      [] cmd = "Parse"            -> "cli::parse"
      [] cmd = "Symbols"          -> "cli::symbols"
      [] cmd = "Highlight"        -> "cli::highlight"
      [] cmd = "Stats"            -> "cli::analysis_stats"
      [] cmd = "Bench"            -> "cli::analysis_bench"
      [] cmd = "Diagnostics"      -> "cli::diagnostics"
      [] cmd = "Ssr"              -> "cli::apply_ssr_rules"
      [] cmd = "StructuredSearch" -> "cli::search_for_patterns"
      [] cmd = "Version"          -> "println"

(* What main returns once the handler returned r: `handler()?` then Ok(()) *)
MainResult(r) == r

(* The handler returned r, and main returns with it                        *)
Return(r) ==
    /\ pc' = "done"
    /\ handlerResult' = r
    /\ result' = MainResult(r)

(* println!("rust-analyzer {}", env!("REV")): the product name, a space,   *)
(* the revision                                                            *)
VersionLine == <<"rust-analyzer", " ", Rev>>

(* The usage text Args::parse has printed when it returns HelpPrinted      *)
HelpText == <<"usage">>

(* setup_logging()?                                                        *)
SetupLogging ==
    /\ pc = "main"
    /\ \/ /\ pc' = "parse"
          /\ result' = result
       \/ /\ pc' = "done"
          /\ result' = "err"
    /\ UNCHANGED << command, invoked, handlerResult, ioThreads, sent, handshake,
                    resolver, env, stdout, trace >>

(* Mutant of ParseArgs: after the help text is printed main goes on to     *)
(* the default command instead of returning                                *)
ParseArgsHelpFallsThrough ==
    /\ pc = "parse"
    /\ \/ /\ pc' = "done"
          /\ result' = "err"
          /\ UNCHANGED << command, stdout >>
       \/ /\ pc' = "dispatch"
          /\ result' = result
          /\ stdout' = Append(stdout, HelpText)
          /\ command' = Some("RunServer")
       \/ \E cmd \in Commands :
            /\ pc' = "dispatch"
            /\ result' = result
            /\ command' = Some(cmd)
            /\ stdout' = stdout
    /\ UNCHANGED << invoked, handlerResult, ioThreads, sent, handshake, resolver,
                    env, trace >>

(* args::Args::parse()?: a usage error, HelpPrinted, or the parsed Args    *)
ParseArgs ==
    /\ pc = "parse"
    /\ \/ /\ pc' = "done"
          /\ result' = "err"
          /\ UNCHANGED << command, stdout >>
       \/ /\ pc' = "done"
          /\ result' = "ok"
          /\ stdout' = Append(stdout, HelpText)
          /\ command' = command
       \/ \E cmd \in Commands :
            /\ pc' = "dispatch"
            /\ result' = result
            /\ command' = Some(cmd)
            /\ stdout' = stdout
    /\ UNCHANGED << invoked, handlerResult, ioThreads, sent, handshake, resolver,
                    env, trace >>

(* The match arms other than RunServer: one external call, then return.    *)
(* println! has no error result.                                           *)
Dispatch ==
    /\ pc = "dispatch"
    /\ Unwrap(command) # "RunServer"
    /\ invoked' = Append(invoked, HandlerOf(Unwrap(command)))
    /\ stdout' = IF Unwrap(command) = "Version" THEN Append(stdout, VersionLine)
                 ELSE stdout
    /\ \E r \in (IF Unwrap(command) = "Version" THEN {"ok"} ELSE {"ok", "err"}) :
          Return(r)
    /\ UNCHANGED << command, ioThreads, sent, handshake, resolver, env, trace >>

(* ---------------------------------------------------------------------- *)
(* run_server                                                              *)
(* ---------------------------------------------------------------------- *)

(* The RunServer arm: run_server starts and opens Connection::stdio()      *)
RunServerStart ==
    /\ pc = "dispatch"
    /\ Unwrap(command) = "RunServer"
    /\ invoked' = Append(invoked, HandlerOf(Unwrap(command)))
    /\ ioThreads' = "running"
    /\ trace' = Append(trace, "stdio")
    /\ pc' = "initialize_start"
    /\ UNCHANGED << result, command, handlerResult, sent, handshake, resolver, env, stdout >>

(* Mutant of InitializeStart: a failed read is tried again                 *)
InitializeStartRetry ==
    /\ pc = "initialize_start"
    /\ \/ \E id \in RequestIds, body \in Bodies :
            /\ initialize_id' = Some(id)
            /\ raw_params' = Some(body)
            /\ trace' = Append(trace, "read_ok")
            /\ pc' = "from_json"
       \/ /\ Len(trace) < 3
          /\ trace' = Append(trace, "read_err")
          /\ pc' = pc
          /\ UNCHANGED << initialize_id, raw_params >>
    /\ UNCHANGED << result, handlerResult, command, invoked, ioThreads, sent,
                    initialize_params, resolver, env, stdout >>

(* connection.initialize_start()?: the blocking read of the request        *)
InitializeStart ==
    /\ pc = "initialize_start"
    /\ \/ \E id \in RequestIds, body \in Bodies :
            /\ initialize_id' = Some(id)
            /\ raw_params' = Some(body)
            /\ trace' = Append(trace, "read_ok")
            /\ pc' = "from_json"
            /\ UNCHANGED << result, handlerResult >>
       \/ /\ trace' = Append(trace, "read_err")
          /\ Return("err")
          /\ UNCHANGED << initialize_id, raw_params >>
    /\ UNCHANGED << command, invoked, ioThreads, sent, initialize_params, resolver, env, stdout >>

(* Mutant of Decode: a body that does not decode is replaced by default    *)
(* parameters and the handshake goes on                                    *)
DecodeFallback ==
    /\ pc = "from_json"
    /\ LET r == FromJson(Unwrap(raw_params))
       IN  /\ initialize_params' =
                 IF r.ok THEN Some(r.params)
                 ELSE Some([root_uri |-> None, workspace_folders |-> None,
                            initialization_options |-> None, capabilities |-> {},
                            client_info |-> None])
           /\ trace' = Append(trace, IF r.ok THEN "decode_ok" ELSE "decode_err")
           /\ pc' = "initialize_finish"
    /\ UNCHANGED << result, handlerResult, command, invoked, ioThreads, sent,
                    initialize_id, raw_params, resolver, env, stdout >>

(* from_json::<InitializeParams>("InitializeParams", initialize_params)?   *)
Decode ==
    /\ pc = "from_json"
    /\ LET r == FromJson(Unwrap(raw_params))
       IN  IF r.ok
           THEN /\ initialize_params' = Some(r.params)
                /\ trace' = Append(trace, "decode_ok")
                /\ pc' = "initialize_finish"
                /\ UNCHANGED << result, handlerResult >>
           ELSE /\ trace' = Append(trace, "decode_err")
                /\ Return("err")
                /\ UNCHANGED initialize_params
    /\ UNCHANGED << command, invoked, ioThreads, sent, initialize_id, raw_params,
                    resolver, env, stdout >>

(* Mutant of InitializeFinish: the response is written twice               *)
InitializeFinishTwice ==
    /\ pc = "initialize_finish"
    /\ LET response == InitializeResponse(Unwrap(initialize_id),
                                          InitializeResult(Unwrap(initialize_params)))
       IN  \/ /\ sent' = sent \o <<response, response>>
              /\ trace' = Append(trace, "send_ok")
              /\ pc' = "root_path"
              /\ UNCHANGED << result, handlerResult >>
           \/ /\ sent' = sent
              /\ trace' = Append(trace, "send_err")
              /\ Return("err")
    /\ UNCHANGED << command, invoked, ioThreads, handshake, resolver, env, stdout >>

(* server_capabilities, InitializeResult, then                             *)
(* connection.initialize_finish(initialize_id, initialize_result)?:        *)
(* the response is written, or the write fails, or the write succeeds and  *)
(* the Transport then fails waiting for the client's acknowledgement       *)
InitializeFinish ==
    /\ pc = "initialize_finish"
    /\ LET response == InitializeResponse(Unwrap(initialize_id),
                                          InitializeResult(Unwrap(initialize_params)))
       IN  \/ /\ sent' = Append(sent, response)
              /\ trace' = Append(trace, "send_ok")
              /\ pc' = "root_path"
              /\ UNCHANGED << result, handlerResult >>
           \/ /\ sent' = sent
              /\ trace' = Append(trace, "send_err")
              /\ Return("err")
           \/ /\ sent' = Append(sent, response)
              /\ trace' = Append(trace, "ack_err")
              /\ Return("err")
    /\ UNCHANGED << command, invoked, ioThreads, handshake, resolver, env, stdout >>

(* Mutant of NewConfig: the configuration block runs in place of the       *)
(* initialize_finish call, before any response is written                  *)
NewConfigBeforeResponse ==
    /\ pc \in {"initialize_finish", "root_path"}
    /\ LET r == RootPath(Unwrap(initialize_params), cwd)
       IN  IF r.ok
           THEN /\ config' = ConfigNew(r.path)
                /\ trace' = trace \o (IF r.fromCwd THEN <<"cwd_ok">> ELSE <<>>)
                                  \o <<"config_new">>
                /\ pc' = "update"
                /\ UNCHANGED << result, handlerResult >>
           ELSE /\ config' = config
                /\ trace' = Append(trace, "cwd_err")
                /\ Return("err")
    /\ UNCHANGED << command, invoked, ioThreads, sent, handshake, workspace_roots,
                    loopConfig, env, stdout >>

(* The root_path match and Config::new(root_path)                          *)
NewConfig ==
    /\ pc = "root_path"
    /\ LET r == RootPath(Unwrap(initialize_params), cwd)
       IN  IF r.ok
           THEN /\ config' = ConfigNew(r.path)
                /\ trace' = trace \o (IF r.fromCwd THEN <<"cwd_ok">> ELSE <<>>)
                                  \o <<"config_new">>
                /\ pc' = "update"
                /\ UNCHANGED << result, handlerResult >>
           ELSE /\ config' = config
                /\ trace' = Append(trace, "cwd_err")
                /\ Return("err")
    /\ UNCHANGED << command, invoked, ioThreads, sent, handshake, workspace_roots,
                    loopConfig, env, stdout >>

(* if let Some(json) = initialization_options { config.update(json) }      *)
UpdateOptions ==
    /\ pc = "update"
    /\ LET opts == Unwrap(initialize_params).initialization_options
       IN  IF IsSome(opts)
           THEN /\ config' = ConfigUpdate(config, Unwrap(opts))
                /\ trace' = Append(trace, "update")
           ELSE UNCHANGED << config, trace >>
    /\ pc' = "update_caps"
    /\ UNCHANGED << result, command, invoked, handlerResult, ioThreads, sent,
                    handshake, workspace_roots, loopConfig, env, stdout >>

(* Mutant of UpdateCaps: the capability flags are left at their defaults   *)
UpdateCapsSkipped ==
    /\ pc = "update_caps"
    /\ pc' = "linked_projects"
    /\ UNCHANGED << result, command, invoked, handlerResult, ioThreads, sent,
                    handshake, resolver, env, stdout, trace >>

(* config.update_caps(&initialize_params.capabilities)                     *)
UpdateCaps ==
    /\ pc = "update_caps"
    /\ config' = ConfigUpdateCaps(config, Unwrap(initialize_params).capabilities)
    /\ trace' = Append(trace, "update_caps")
    /\ pc' = "linked_projects"
    /\ UNCHANGED << result, command, invoked, handlerResult, ioThreads, sent,
                    handshake, workspace_roots, loopConfig, env, stdout >>

(* Mutant of LinkedProjects: finding no manifest at all is returned as an  *)
(* error of run_server                                                     *)
LinkedProjectsEmptyIsError ==
    /\ pc = "linked_projects"
    /\ IF NeedsDiscovery(config)
       THEN LET roots == WorkspaceRoots(Unwrap(initialize_params), config.root_path)
                found == DiscoveredProjects(fs, roots)
            IN  /\ workspace_roots' = Some(roots)
                /\ config' = [config EXCEPT !.linked_projects = found]
                /\ trace' = Append(trace, "discover_all")
                /\ IF found = <<>>
                   THEN Return("err")
                   ELSE /\ pc' = "main_loop"
                        /\ UNCHANGED << result, handlerResult >>
       ELSE /\ UNCHANGED << workspace_roots, config, result, handlerResult >>
            /\ trace' = Append(trace, "declared")
            /\ pc' = "main_loop"
    /\ UNCHANGED << command, invoked, ioThreads, sent, handshake, loopConfig, env, stdout >>

(* Mutant of LinkedProjects: a failing probe of any candidate root is      *)
(* returned as the error of run_server                                     *)
LinkedProjectsProbeFatal ==
    /\ pc = "linked_projects"
    /\ IF NeedsDiscovery(config)
       THEN LET roots == WorkspaceRoots(Unwrap(initialize_params), config.root_path)
            IN  /\ workspace_roots' = Some(roots)
                /\ trace' = Append(trace, "discover_all")
                /\ IF \E i \in 1..Len(roots) : ~fs[roots[i]].ok
                   THEN /\ Return("err")
                        /\ config' = config
                   ELSE /\ config' = [config EXCEPT
                                         !.linked_projects = DiscoveredProjects(fs, roots)]
                        /\ pc' = "main_loop"
                        /\ UNCHANGED << result, handlerResult >>
       ELSE /\ UNCHANGED << workspace_roots, config, result, handlerResult >>
            /\ trace' = Append(trace, "declared")
            /\ pc' = "main_loop"
    /\ UNCHANGED << command, invoked, ioThreads, sent, handshake, loopConfig, env, stdout >>

(* if config.linked_projects.is_empty() { workspace_roots; discover_all }  *)
LinkedProjects ==
    /\ pc = "linked_projects"
    /\ IF NeedsDiscovery(config)
       THEN LET roots == WorkspaceRoots(Unwrap(initialize_params), config.root_path)
            IN  /\ workspace_roots' = Some(roots)
                /\ config' = [config EXCEPT
                                 !.linked_projects = DiscoveredProjects(fs, roots)]
                /\ trace' = Append(trace, "discover_all")
       ELSE /\ UNCHANGED << workspace_roots, config >>
            /\ trace' = Append(trace, "declared")
    /\ pc' = "main_loop"
    /\ UNCHANGED << result, command, invoked, handlerResult, ioThreads, sent,
                    handshake, loopConfig, env, stdout >>

(* Mutant of MainLoop: main_loop is entered as soon as the request is      *)
(* decoded, before the response is sent and the configuration built        *)
MainLoopEarly ==
    /\ pc \in {"initialize_finish", "main_loop"}
    /\ loopConfig' = Some(config)
    /\ trace' = Append(trace, "main_loop")
    /\ \/ /\ pc' = "join"
          /\ UNCHANGED << result, handlerResult >>
       \/ Return("err")
    /\ UNCHANGED << command, invoked, ioThreads, sent, handshake, config,
                    workspace_roots, env, stdout >>

(* Mutant of MainLoop: run_server returns Ok(()) as soon as main_loop      *)
(* returned Ok, never reaching io_threads.join()                           *)
MainLoopReturnsDirectly ==
    /\ pc = "main_loop"
    /\ loopConfig' = Some(config)
    /\ trace' = Append(trace, "main_loop")
    /\ \/ Return("ok")
       \/ Return("err")
    /\ UNCHANGED << command, invoked, ioThreads, sent, handshake, config,
                    workspace_roots, env, stdout >>

(* rust_analyzer::main_loop(config, connection)?                           *)
MainLoop ==
    /\ pc = "main_loop"
    /\ loopConfig' = Some(config)
    /\ trace' = Append(trace, "main_loop")
    /\ \/ /\ pc' = "join"
          /\ UNCHANGED << result, handlerResult >>
       \/ Return("err")
    /\ UNCHANGED << command, invoked, ioThreads, sent, handshake, config,
                    workspace_roots, env, stdout >>

(* Mutant of Join: run_server returns Ok(()) once main_loop returned,      *)
(* without joining the IO threads                                          *)
JoinSkipped ==
    /\ pc = "join"
    /\ ioThreads' = ioThreads
    /\ trace' = Append(trace, "return")
    /\ Return("ok")
    /\ UNCHANGED << command, invoked, sent, handshake, resolver, env, stdout >>

(* io_threads.join()?; Ok(())                                              *)
Join ==
    /\ pc = "join"
    /\ ioThreads' = "joined"
    /\ \/ /\ trace' = Append(trace, "join_ok")
          /\ Return("ok")
       \/ /\ trace' = Append(trace, "join_err")
          /\ Return("err")
    /\ UNCHANGED << command, invoked, sent, handshake, resolver, env, stdout >>

Next ==
    \/ SetupLogging
    \/ ParseArgs
    \/ Dispatch
    \/ RunServerStart
    \/ InitializeStart
    \/ Decode
    \/ InitializeFinish
    \/ NewConfig
    \/ UpdateOptions
    \/ UpdateCaps
    \/ LinkedProjects
    \/ MainLoop
    \/ Join

Spec == Init /\ [][Next]_vars

(* ---------------------------------------------------------------------- *)
(* Properties                                                              *)
(* ---------------------------------------------------------------------- *)

(* Position of the first occurrence of event e in the trace, 0 if absent   *)
Pos(e) ==
    IF \E i \in 1..Len(trace) : trace[i] = e
    THEN CHOOSE i \in 1..Len(trace) :
            /\ trace[i] = e
            /\ \A j \in 1..(i - 1) : trace[j] # e
    ELSE 0

Happened(e) == Pos(e) > 0
Count(e) == Cardinality({ i \in 1..Len(trace) : trace[i] = e })
Last == IF trace = <<>> THEN "" ELSE trace[Len(trace)]

(* A location that is a file location with an absolute path                *)
ValidLocation(u) == u.scheme = "file" /\ u.path \in AbsPaths

(* The supplied root is present, a file location and absolute              *)
RootSupplied(params) ==
    /\ IsSome(params.root_uri)
    /\ ValidLocation(Unwrap(params.root_uri))

(* The folders of the request that are absolute file locations, in the     *)
(* order of the request, as paths                                          *)
ConvertedFolders(params) ==
    IF IsSome(params.workspace_folders)
    THEN LET sel == SelectSeq(Unwrap(params.workspace_folders), ValidLocation)
         IN  [i \in 1..Len(sel) |-> sel[i].path]
    ELSE <<>>

(* C1: in server mode main_loop is invoked only after the initialize       *)
(* request was read, its body decoded, the initialize response sent and    *)
(* the configuration completed, in this order.                             *)
C1_MainLoopOnlyAfterHandshake ==
    (Happened("main_loop") \/ IsSome(loopConfig)) =>
        /\ Pos("stdio") = 1
        /\ Pos("read_ok") = 2
        /\ Pos("read_ok") < Pos("decode_ok")
        /\ Pos("decode_ok") < Pos("send_ok")
        /\ Pos("send_ok") < Pos("config_new")
        /\ Pos("config_new") < Pos("update_caps")
        /\ \/ Pos("update_caps") < Pos("discover_all")
           \/ Pos("update_caps") < Pos("declared")
        /\ Pos("discover_all") < Pos("main_loop")
        /\ Pos("declared") < Pos("main_loop")
        /\ Count("main_loop") = 1
        /\ IsSome(loopConfig)
        /\ Unwrap(loopConfig).built
        /\ Len(sent) = 1

C1_Witness ==
    /\ pc = "join"
    /\ IsSome(loopConfig)
    /\ Happened("discover_all")

(* C2: when the body of the initialize request does not decode as         *)
(* InitializeParams the process ends with a failure result, no response is *)
(* ever written to the Transport, no configuration is built (with defaults *)
(* or otherwise) and main_loop is never invoked.                           *)
C2_DecodeFailureIsFatal ==
    (IsSome(raw_params) /\ ~Unwrap(raw_params).wellFormed) =>
        /\ sent = <<>>
        /\ initialize_params = None
        /\ config = NoConfig
        /\ loopConfig = None
        /\ ~Happened("main_loop")
        /\ \/ pc = "from_json" /\ result = "none"
           \/ pc = "done" /\ result = "err" /\ Last = "decode_err"

C2_Witness ==
    /\ pc = "done"
    /\ IsSome(raw_params)
    /\ ~Unwrap(raw_params).wellFormed
    /\ result = "err"

(* The handler that belongs to each ModeSelector variant                   *)
MatchingHandler ==
    [ RunServer        |-> "run_server",
      ProcMacro        |-> "ra_proc_macro_srv::cli::run",
      Parse            |-> "cli::parse",
      Symbols          |-> "cli::symbols",
      Highlight        |-> "cli::highlight",
      Stats            |-> "cli::analysis_stats",
      Bench            |-> "cli::analysis_bench",
      Diagnostics      |-> "cli::diagnostics",
      Ssr              |-> "cli::apply_ssr_rules",
      StructuredSearch |-> "cli::search_for_patterns",
      Version          |-> "println" ]

(* C3: for every ModeSelector variant the dispatcher invokes exactly one   *)
(* handler, the one matching the variant (never zero, two, or another      *)
(* variant's), and the process result is success exactly when that         *)
(* handler succeeded.                                                      *)
C3_ExactlyOneMatchingHandler ==
    /\ Len(invoked) <= 1
    /\ invoked # <<>> =>
          /\ IsSome(command)
          /\ invoked[1] = MatchingHandler[Unwrap(command)]
    /\ (IsSome(command) /\ pc # "dispatch") => Len(invoked) = 1
    /\ (IsSome(command) /\ pc = "done") =>
          /\ handlerResult \in {"ok", "err"}
          /\ result \in {"ok", "err"}
          /\ result = "ok" <=> handlerResult = "ok"
    /\ (IsSome(command) /\ pc # "done") => result = "none"

C3_Witness ==
    /\ pc = "done"
    /\ command = Some("Symbols")
    /\ invoked = <<"cli::symbols">>
    /\ result = "err"

(* C4 as stated: root-path resolution never ends the handshake with an     *)
(* error, whatever the root location and the process environment are.      *)
C4_RootResolutionNeverFails ==
    (IsSome(initialize_params) /\ pc = "done") => Last # "cwd_err"

(* C4 amended: root-path resolution succeeds, and run_server goes on to    *)
(* build the configuration, exactly when the supplied root is an absolute  *)
(* file location or the current working directory can be read; when the    *)
(* root is absent, not a file location or not absolute and current_dir()   *)
(* fails, run_server returns that error after the initialize response was  *)
(* sent, with no configuration built and main_loop never invoked.          *)
C4_RootResolutionFailsOnlyWithoutCwd ==
    (IsSome(initialize_params) /\ Happened("send_ok") /\ pc # "root_path") =>
        LET params == Unwrap(initialize_params)
        IN  /\ config.built <=> (RootSupplied(params) \/ cwd.ok)
            /\ config.built => Happened("config_new") /\ ~Happened("cwd_err")
            /\ ~config.built =>
                  /\ pc = "done"
                  /\ result = "err"
                  /\ Last = "cwd_err"
                  /\ Len(sent) = 1
                  /\ loopConfig = None

C4_Witness ==
    /\ pc = "update"
    /\ config.built
    /\ ~RootSupplied(Unwrap(initialize_params))
    /\ Happened("cwd_ok")

(* C5: the resolved root path equals the supplied root location when that  *)
(* location is present, converts to a file path and is absolute; in every  *)
(* other case it equals the current working directory at resolution time,  *)
(* whatever the workspace folders and initialization options are.          *)
C5_RootPathValue ==
    config.built =>
        LET params == Unwrap(initialize_params)
        IN  /\ RootSupplied(params) =>
                  /\ config.root_path = Unwrap(params.root_uri).path
                  /\ ~Happened("cwd_ok")
            /\ ~RootSupplied(params) =>
                  /\ cwd.ok
                  /\ config.root_path = cwd.path
                  /\ Happened("cwd_ok")
            /\ IsSome(loopConfig) => Unwrap(loopConfig).root_path = config.root_path

C5_Witness ==
    /\ IsSome(loopConfig)
    /\ Unwrap(initialize_params).root_uri = Some([scheme |-> "file", path |-> "rel"])
    /\ Unwrap(initialize_params).workspace_folders =
           Some(<<[scheme |-> "file", path |-> "/a"]>>)
    /\ Unwrap(loopConfig).root_path = "/cwd"

(* C6: if the configuration holds a non-empty linked project list once    *)
(* the initialization options are merged, that list reaches main_loop      *)
(* unchanged and manifest discovery is never run, whatever the workspace   *)
(* folders and the root location are.                                      *)
C6_DeclaredProjectsWin ==
    [][ ( /\ pc \in {"linked_projects", "main_loop"}
          /\ config.linked_projects # <<>>
          /\ workspace_roots = None )
        => ( /\ config'.linked_projects = config.linked_projects
             /\ workspace_roots' = None
             /\ ~(\E i \in 1..Len(trace') : trace'[i] = "discover_all")
             /\ pc = "main_loop" =>
                   /\ IsSome(loopConfig')
                   /\ Unwrap(loopConfig').linked_projects = config.linked_projects ) ]_vars

C6_Witness ==
    /\ IsSome(loopConfig)
    /\ workspace_roots = None
    /\ Unwrap(loopConfig).linked_projects = <<DeclaredProject("p2"), DeclaredProject("p1")>>
    /\ ConvertedFolders(Unwrap(initialize_params)) = <<"/ws", "/a">>
    /\ fs["/a"].found # <<>>

(* C7: whenever manifest discovery runs its candidate roots are not empty: *)
(* they are the workspace folders that converted to absolute paths or,     *)
(* when that list is absent or empty after conversion, the resolved root   *)
(* path alone (root /ws, folders [], no options: discovery at /ws alone).  *)
C7_CandidateRootsNonEmpty ==
    (IsSome(workspace_roots) \/ Happened("discover_all")) =>
        LET params == Unwrap(initialize_params)
            roots == Unwrap(workspace_roots)
        IN  /\ IsSome(workspace_roots)
            /\ roots # <<>>
            /\ ConvertedFolders(params) # <<>> => roots = ConvertedFolders(params)
            /\ ConvertedFolders(params) = <<>> => roots = <<config.root_path>>
            /\ ( /\ params.root_uri = Some([scheme |-> "file", path |-> "/ws"])
                 /\ params.workspace_folders = Some(<<>>)
                 /\ params.initialization_options = None )
               => roots = <<"/ws">>

C7_Witness ==
    /\ IsSome(initialize_params)
    /\ Unwrap(initialize_params).root_uri = Some([scheme |-> "file", path |-> "/ws"])
    /\ Unwrap(initialize_params).workspace_folders = Some(<<>>)
    /\ Unwrap(initialize_params).initialization_options = None
    /\ workspace_roots = Some(<<"/ws">>)
    /\ config.root_path = "/ws"
    /\ pc = "main_loop"

(* The manifests found under the given roots, root by root in the order    *)
(* of the roots, in discovery order within a root, failed probes skipped   *)
RECURSIVE FoundUnder(_, _)
FoundUnder(fsv, roots) ==
    IF roots = <<>> THEN <<>>
    ELSE (IF fsv[Head(roots)].ok THEN fsv[Head(roots)].found ELSE <<>>)
         \o FoundUnder(fsv, Tail(roots))

(* C8: with no project list declared and a non-empty workspace folder      *)
(* list, discovery is attempted against every folder that converts to an   *)
(* absolute path, in the client's order; folders that fail conversion are  *)
(* dropped without failing the handshake; the linked project list keeps    *)
(* the order of the candidate roots and of discovery within each root,     *)
(* with no deduplication.                                                  *)
C8_DiscoveryOverFoldersInOrder ==
    ( /\ pc \in {"main_loop", "join", "done"}
      /\ config.built
      /\ Happened("update_caps")
      /\ Len(ConvertedFolders(Unwrap(initialize_params))) > 0
      /\ LET o == Unwrap(initialize_params).initialization_options
         IN  IsNone(o) \/ IsNone(Unwrap(o).linkedProjects)
                       \/ Unwrap(Unwrap(o).linkedProjects) = <<>> )
    => LET params == Unwrap(initialize_params)
           found == FoundUnder(fs, ConvertedFolders(params))
       IN  /\ workspace_roots = Some(ConvertedFolders(params))
           /\ Happened("discover_all")
           /\ Last # "discover_all" \/ pc = "main_loop"
           /\ Len(config.linked_projects) = Len(found)
           /\ \A i \in 1..Len(found) :
                 config.linked_projects[i] = [kind |-> "manifest", at |-> found[i]]

C8_Witness ==
    /\ pc = "main_loop"
    /\ workspace_roots = Some(<<"/ws", "/a">>)
    /\ Len(config.linked_projects) = 3
    /\ config.linked_projects[2] = config.linked_projects[3]

(* C9: between the start of server mode and the invocation of main_loop    *)
(* the handshake writes exactly one message to the Transport, the          *)
(* initialize response carrying the request identifier read with the       *)
(* initialize request; it is never sent twice and nothing else is sent.    *)
C9_ExactlyOneResponse ==
    /\ Len(sent) <= 1
    /\ \A i \in 1..Len(sent) :
          /\ sent[i].kind = "response"
          /\ IsSome(initialize_id)
          /\ sent[i].id = Unwrap(initialize_id)
          /\ sent[i].result.server_info.name = "rust-analyzer"
    /\ pc \in {"initialize_start", "from_json", "initialize_finish"} => sent = <<>>
    /\ pc \in {"root_path", "update", "update_caps", "linked_projects", "main_loop"}
          => Len(sent) = 1
    /\ Happened("main_loop") => Len(sent) = 1 /\ Count("send_ok") = 1

C9_Witness ==
    /\ pc = "main_loop"
    /\ initialize_id = Some(2)
    /\ Len(sent) = 1
    /\ sent[1].id = 2

(* C10: a Transport I/O failure while reading the initialize request or    *)
(* while sending the initialize response is fatal: run_server returns the  *)
(* error at once, the failed step is not retried, no configuration is      *)
(* built and main_loop is never invoked.                                   *)
C10_TransportFailureIsFatal ==
    (Happened("read_err") \/ Happened("send_err") \/ Happened("ack_err")) =>
        /\ pc = "done"
        /\ result = "err"
        /\ handlerResult = "err"
        /\ Last \in {"read_err", "send_err", "ack_err"}
        /\ Count("read_err") + Count("read_ok") = 1
        /\ Count("send_err") + Count("ack_err") + Count("send_ok") <= 1
        /\ Happened("read_err") => initialize_id = None /\ sent = <<>>
        /\ Happened("send_err") => sent = <<>>
        /\ config = NoConfig
        /\ workspace_roots = None
        /\ loopConfig = None
        /\ ~Happened("main_loop")

C10_Witness ==
    /\ pc = "done"
    /\ Happened("send_err")
    /\ IsSome(initialize_params)

(* C11: on normal termination of server mode (main_loop returned Ok) the   *)
(* control thread joins the Transport's IO threads before run_server       *)
(* returns: the process never ends with success in server mode with the    *)
(* IO threads unjoined.                                                    *)
C11_JoinBeforeSuccessfulExit ==
    (pc = "done" /\ command = Some("RunServer") /\ result = "ok") =>
        /\ ioThreads = "joined"
        /\ Count("main_loop") = 1
        /\ Pos("main_loop") < Pos("join_ok")
        /\ Last = "join_ok"

C11_Witness ==
    /\ pc = "done"
    /\ command = Some("RunServer")
    /\ result = "ok"
    /\ ioThreads = "joined"

(* C12: a handshake (opening the Transport, reading an initialize request, *)
(* sending a response) takes place only when the selector is RunServer;    *)
(* the help-printed outcome returns success without invoking any handler;  *)
(* the version mode prints the product name with the build revision and    *)
(* returns success; both without any Transport activity.                   *)
C12_HandshakeOnlyInServerMode ==
    /\ ( \/ ioThreads # "none"
         \/ trace # <<>>
         \/ sent # <<>>
         \/ IsSome(initialize_id) )
       => command = Some("RunServer")
    /\ (\E i \in 1..Len(stdout) : stdout[i] = HelpText) =>
          /\ pc = "done"
          /\ result = "ok"
          /\ command = None
          /\ invoked = <<>>
          /\ ioThreads = "none" /\ sent = <<>> /\ trace = <<>>
    /\ (command = Some("Version") /\ pc = "done") =>
          /\ result = "ok"
          /\ Len(stdout) = 1
          /\ stdout[1][1] = "rust-analyzer"
          /\ stdout[1][Len(stdout[1])] = "REV"
          /\ ioThreads = "none" /\ sent = <<>> /\ trace = <<>>
    /\ (command = Some("Version") /\ pc # "done") => stdout = <<>>

C12_Witness ==
    /\ pc = "done"
    /\ command = Some("Version")
    /\ stdout = << <<"rust-analyzer", " ", "REV">> >>
    /\ result = "ok"
    /\ ioThreads = "none"

(* C13 as stated: whenever run_server returns after the Transport was      *)
(* created, with success or with an error from the handshake, from         *)
(* configuration building or from main_loop, the IO threads are joined.    *)
C13_JoinedOnEveryExit ==
    (pc = "done" /\ ioThreads # "none") => ioThreads = "joined"

(* C13 amended: the IO threads are joined only on the path where main_loop *)
(* returned Ok: run_server then joins them before it returns (with success *)
(* or with the error of the join itself). Whenever run_server returns an   *)
(* error from the handshake, from configuration building or from           *)
(* main_loop, the IO threads have not been joined.                         *)
C13_JoinedOnlyAfterMainLoopOk ==
    (pc = "done" /\ command = Some("RunServer")) =>
        /\ ioThreads \in {"running", "joined"}
        /\ ioThreads = "joined" <=> Last \in {"join_ok", "join_err"}
        /\ ioThreads = "joined" => Pos("main_loop") > 0 /\ Pos("main_loop") = Len(trace) - 1
        /\ Last \in {"read_err", "decode_err", "send_err", "ack_err", "cwd_err", "main_loop"}
              => ioThreads = "running" /\ result = "err"
        /\ result = "ok" => ioThreads = "joined"
        /\ Last \in {"read_err", "decode_err", "send_err", "ack_err", "cwd_err",
                     "main_loop", "join_ok", "join_err"}

C13_Witness ==
    /\ pc = "done"
    /\ command = Some("RunServer")
    /\ Last = "main_loop"
    /\ result = "err"
    /\ ioThreads = "running"

(* The one response payload for each declared capability set              *)
PayloadFor ==
    [ caps \in ClientCaps |->
        [capabilities |-> [completion |-> TRUE, snippetEdits |-> caps = {"snippet"}],
         server_info |-> [name |-> "rust-analyzer", version |-> <<"REV">>]] ]

(* C14: the initialize response depends only on the client's declared      *)
(* capability set and the static server identity: every handshake whose    *)
(* request declares a given capability set writes the same payload,        *)
(* whatever its root location, workspace folders, initialization options,  *)
(* client identity, request id and filesystem are.                         *)
C14_ResponseDependsOnlyOnCapabilities ==
    \A i \in 1..Len(sent) :
        /\ IsSome(initialize_params)
        /\ sent[i].result = PayloadFor[Unwrap(initialize_params).capabilities]

C14_Witness ==
    /\ Len(sent) = 1
    /\ IsSome(initialize_params)
    /\ Unwrap(initialize_params).capabilities = {"snippet"}
    /\ Unwrap(initialize_params).client_info = Some("vscode")
    /\ Unwrap(initialize_params).root_uri = Some([scheme |-> "file", path |-> "/a"])
    /\ sent[1].result.capabilities.snippetEdits
    /\ fs["/a"].found # <<>>

(* C15: a failing manifest probe is never fatal to the handshake: once    *)
(* the root path is resolved run_server does not return before main_loop   *)
(* is invoked, whatever discovery meets, and the projects found under the  *)
(* candidate roots whose probe succeeds are placed in the configuration.   *)
C15_FailingProbeIsNotFatal ==
    config.built =>
        /\ pc = "done" => Happened("main_loop")
        /\ Happened("discover_all") =>
              LET roots == Unwrap(workspace_roots)
                  lp == config.linked_projects
              IN  /\ pc \in {"main_loop", "join", "done"}
                  /\ \A i \in 1..Len(roots) :
                        fs[roots[i]].ok =>
                           \A k \in 1..Len(fs[roots[i]].found) :
                              \E j \in 1..Len(lp) :
                                 lp[j] = [kind |-> "manifest", at |-> fs[roots[i]].found[k]]
                  /\ \A j \in 1..Len(lp) :
                        \E i \in 1..Len(roots) :
                           /\ fs[roots[i]].ok
                           /\ \E k \in 1..Len(fs[roots[i]].found) :
                                 lp[j].at = fs[roots[i]].found[k]
                  /\ IsSome(loopConfig) => Unwrap(loopConfig).linked_projects = lp

C15_Witness ==
    /\ IsSome(loopConfig)
    /\ workspace_roots = Some(<<"/ws", "/a">>)
    /\ ~fs["/ws"].ok
    /\ Unwrap(loopConfig).linked_projects = <<[kind |-> "manifest", at |-> "/a/Cargo.toml"]>>

(* C16: no partial configuration reaches main_loop: whenever main_loop is  *)
(* invoked, the configuration it receives has its root path set, the       *)
(* initialization options merged when present, the capability flags        *)
(* applied and the linked projects chosen (declared or discovered), each   *)
(* step having run exactly once; when configuration building fails,        *)
(* main_loop is not invoked.                                               *)
C16_NoPartialConfig ==
    /\ (IsSome(loopConfig) \/ Happened("main_loop")) =>
          LET c == Unwrap(loopConfig)
              params == Unwrap(initialize_params)
              merged == IF IsSome(params.initialization_options) THEN 1 ELSE 0
          IN  /\ IsSome(loopConfig)
              /\ c.built
              /\ c.root_path \in AbsPaths
              /\ Count("config_new") = 1
              /\ c.merges = merged
              /\ Count("update") = merged
              /\ c.capsApplied = 1
              /\ c.caps = params.capabilities
              /\ Count("update_caps") = 1
              /\ Count("discover_all") + Count("declared") = 1
              /\ Happened("declared") => c.linked_projects # <<>> /\ workspace_roots = None
              /\ Happened("discover_all") => IsSome(workspace_roots)
              /\ c = config
    /\ Happened("cwd_err") =>
          /\ loopConfig = None
          /\ ~Happened("main_loop")
          /\ config = NoConfig
          /\ pc = "done" /\ result = "err"

C16_Witness ==
    /\ IsSome(loopConfig)
    /\ Unwrap(loopConfig).merges = 1
    /\ Unwrap(loopConfig).capsApplied = 1
    /\ Unwrap(loopConfig).caps = {"snippet"}
    /\ Happened("discover_all")
    /\ Unwrap(loopConfig).linked_projects # <<>>

(* The elements of a sequence                                              *)
Range(q) == { q[i] : i \in 1..Len(q) }

(* The manifests a probe of path p finds (none when the probe fails)       *)
ReachableFrom(p) == IF fs[p].ok THEN Range(fs[p].found) ELSE {}

(* C17 as stated: when at least one workspace folder converts to an        *)
(* absolute path, the resolved root path is not a discovery candidate, and *)
(* a manifest reachable only from the root path is never added.            *)
C17_RootNeverCandidate ==
    (IsSome(workspace_roots) /\ ConvertedFolders(Unwrap(initialize_params)) # <<>>) =>
        /\ config.root_path \notin Range(Unwrap(workspace_roots))
        /\ \A j \in 1..Len(config.linked_projects) :
              \E p \in Range(ConvertedFolders(Unwrap(initialize_params))) :
                 config.linked_projects[j].at \in ReachableFrom(p)

(* C17 amended: when at least one workspace folder converts to an absolute *)
(* path, the candidate roots are exactly the converted folders: the        *)
(* resolved root path is a discovery candidate only when it is itself one  *)
(* of the converted folders, and a manifest reachable only from the root   *)
(* path (and from none of the converted folders) is never added to the     *)
(* linked projects.                                                        *)
C17_RootCandidateOnlyAsFolder ==
    (IsSome(workspace_roots) /\ ConvertedFolders(Unwrap(initialize_params)) # <<>>) =>
        LET folders == ConvertedFolders(Unwrap(initialize_params))
            roots == Unwrap(workspace_roots)
            lp == config.linked_projects
            underFolders == UNION { ReachableFrom(p) : p \in Range(folders) }
        IN  /\ roots = folders
            /\ config.root_path \in Range(roots) <=> config.root_path \in Range(folders)
            /\ \A j \in 1..Len(lp) : lp[j].at \in underFolders
            /\ \A m \in ReachableFrom(config.root_path) \ underFolders :
                  \A j \in 1..Len(lp) : lp[j].at # m

C17_Witness ==
    /\ pc = "main_loop"
    /\ config.root_path = "/ws"
    /\ workspace_roots = Some(<<"/a">>)
    /\ "/ws/Cargo.toml" \in ReachableFrom("/ws")
    /\ config.linked_projects = <<[kind |-> "manifest", at |-> "/a/Cargo.toml"]>>

(* C18: an empty discovery result is not an error: when no project list is *)
(* declared and discovery finds no manifest under any candidate root,      *)
(* run_server does not return before main_loop, and main_loop is invoked   *)
(* with an empty linked project list.                                      *)
C18_EmptyDiscoveryIsNotAnError ==
    (Happened("discover_all") /\ config.linked_projects = <<>>) =>
        /\ pc \in {"main_loop", "join", "done"}
        /\ pc = "main_loop" => result = "none"
        /\ pc \in {"join", "done"} =>
              /\ Happened("main_loop")
              /\ IsSome(loopConfig)
              /\ Unwrap(loopConfig).linked_projects = <<>>

C18_Witness ==
    /\ IsSome(loopConfig)
    /\ Happened("discover_all")
    /\ IsSome(workspace_roots)
    /\ Unwrap(loopConfig).linked_projects = <<>>
    /\ pc = "join"

(* C19: the initialize response is sent before any workspace resolution    *)
(* step starts (current-directory lookup, option merge, discovery), so a   *)
(* failure of configuration building happens only after the successful     *)
(* initialize response was written, and the process then ends without      *)
(* entering main_loop.                                                     *)
C19_ResponseBeforeResolution ==
    /\ \A i \in 1..Len(trace) :
          trace[i] \in {"cwd_ok", "cwd_err", "config_new", "update", "update_caps",
                        "discover_all", "declared"}
          => /\ Pos("send_ok") > 0
             /\ Pos("send_ok") < i
             /\ Len(sent) = 1
             /\ sent[1].kind = "response"
    /\ (config.built \/ IsSome(workspace_roots)) => Len(sent) = 1
    /\ Happened("cwd_err") =>
          /\ Len(sent) = 1
          /\ sent[1].id = Unwrap(initialize_id)
          /\ sent[1].result.server_info.name = "rust-analyzer"
          /\ pc = "done"
          /\ result = "err"
          /\ loopConfig = None
          /\ ~Happened("main_loop")

C19_Witness ==
    /\ pc = "done"
    /\ Last = "cwd_err"
    /\ Len(sent) = 1
    /\ result = "err"

====
